---------------------------- MODULE Spec2Model ----------------------------
(***************************************************************************)
(* Model of the ESXi PERCCLI exporter (src/main.py): the /metrics request  *)
(* handler, the PercMetrics collection pipeline with its remote commands,  *)
(* the SMART hex decoder and the smartctl JSON decoders.                   *)
(*                                                                         *)
(* Conventions.                                                            *)
(*  - A text is a sequence of one-character strings.                       *)
(*  - A Python integer that may need 48 bits is kept as two 24-bit limbs   *)
(*    [hi, lo] (value = hi * 2^24 + lo), because TLC's integers are 32     *)
(*    bits wide.                                                           *)
(*  - A Python call that may raise is an operator returning a record with  *)
(*    a field naming the exception ("none" when it returns normally).      *)
(***************************************************************************)
EXTENDS Integers, Sequences, FiniteSets, TLC

\* ------------------------------------------------------------------ bounds
\* longest free-form text handed to the SMART hex decoder
MaxChars == 4
\* largest number of 11-byte records in a generated SMART record stream
MaxRecords == 2
\* physical drives listed by a megaraid_sas controller of the drawn topologies
MaxDrives == 2
\* requests served one after the other in a behaviour
MaxRequests == 2

\* --------------------------------------------------------------- integers
RECURSIVE BitOr(_, _)
\* Python's (x | y) on non-negative integers
BitOr(x, y) ==
    IF x = 0 THEN y
    ELSE IF y = 0 THEN x
    ELSE (IF x % 2 = 1 \/ y % 2 = 1 THEN 1 ELSE 0) + 2 * BitOr(x \div 2, y \div 2)

Pow256(k) == IF k = 0 THEN 1 ELSE IF k = 1 THEN 256 ELSE 65536

\* Python's (byte_val << (k * 8)) for k in 0..5, as limbs
ShiftLeft(byte_val, k) ==
    IF k < 3 THEN [hi |-> 0, lo |-> byte_val * Pow256(k)]
    ELSE [hi |-> byte_val * Pow256(k - 3), lo |-> 0]

\* Python's (a | b) on limbs
Or48(a, b) == [hi |-> BitOr(a.hi, b.hi), lo |-> BitOr(a.lo, b.lo)]

\* a small Python int as limbs
Small(n) == [hi |-> 0, lo |-> n]

\* ------------------------------------------------------------- hex texts
HexDigits == <<"0", "1", "2", "3", "4", "5", "6", "7",
               "8", "9", "a", "b", "c", "d", "e", "f">>
UpperHexDigits == <<"0", "1", "2", "3", "4", "5", "6", "7",
                    "8", "9", "A", "B", "C", "D", "E", "F">>

\* the character class [0-9a-fA-F] of the regular expression
IsHexChar(c) == \E v \in 1..16 : HexDigits[v] = c \/ UpperHexDigits[v] = c

\* int(c, 16) of one hexadecimal digit
HexVal(c) == (CHOOSE v \in 1..16 : HexDigits[v] = c \/ UpperHexDigits[v] = c) - 1

\* re.sub(r'[^0-9a-fA-F]', '', smart_data_hex)
HexClean(smart_data_hex) == SelectSeq(smart_data_hex, IsHexChar)

\* for i in range(0, len(hex_clean), 2): int(hex_clean[i:i+2], 16)
\* (a trailing single digit is converted on its own)
ByteArray(hex_clean) ==
    [j \in 1..((Len(hex_clean) + 1) \div 2) |->
        IF 2 * j <= Len(hex_clean)
        THEN 16 * HexVal(hex_clean[2 * j - 1]) + HexVal(hex_clean[2 * j])
        ELSE HexVal(hex_clean[2 * j - 1])]

\* attr_name_map: the ids of the table and their names
attr_name_map ==
    (1 :> "raw_read_error_rate") @@ (3 :> "spin_up_time") @@
    (4 :> "start_stop_count") @@ (5 :> "reallocated_sector_count") @@
    (7 :> "seek_error_rate") @@ (9 :> "power_on_hours") @@
    (12 :> "power_cycle_count") @@ (83 :> "initial_bad_block_count") @@
    (177 :> "wear_leveling_count") @@
    (179 :> "used_reserved_block_count_total") @@
    (180 :> "unused_reserved_block_count_total") @@
    (181 :> "program_fail_count_total") @@
    (182 :> "erase_fail_count_total") @@ (183 :> "runtime_bad_block") @@
    (184 :> "end_to_end_error") @@ (187 :> "uncorrectable_error_count") @@
    (190 :> "airflow_temperature_celsius") @@
    (194 :> "temperature_celsius") @@ (195 :> "hardware_ecc_recovered") @@
    (197 :> "current_pending_sector_count") @@
    (198 :> "uncorrectable_sector_count") @@
    (199 :> "udma_crc_error_count") @@ (202 :> "data_address_mark_errors") @@
    (235 :> "por_recovery_count") @@ (241 :> "total_host_writes") @@
    (242 :> "total_host_reads") @@ (243 :> "total_host_writes_expanded") @@
    (244 :> "total_host_reads_expanded") @@
    (245 :> "remaining_rated_write_endurance") @@
    (246 :> "cumulative_host_sectors_written") @@
    (247 :> "host_program_page_count") @@ (251 :> "minimum_spares_remaining")

\* attr_name_map.get(attr_id, f"unknown_{attr_id:02x}")
AttrName(attr_id) ==
    IF attr_id \in DOMAIN attr_name_map
    THEN attr_name_map[attr_id]
    ELSE "unknown_" \o HexDigits[(attr_id \div 16) + 1] \o HexDigits[(attr_id % 16) + 1]

\* the framing test of line 90; Python reads it as
\*   (len >= 2 and b[0] == 0x01 and b[1] == 0x00) or (b[0] == 0x2f and b[1] == 0x00)
\* so the second operand indexes the array whatever its length
HeaderCheck(byte_array) ==
    IF Len(byte_array) >= 2 /\ byte_array[1] = 1 /\ byte_array[2] = 0 THEN "skip"
    ELSE IF Len(byte_array) < 1 THEN "IndexError"
    ELSE IF byte_array[1] # 47 THEN "keep"
    ELSE IF Len(byte_array) < 2 THEN "IndexError"
    ELSE IF byte_array[2] = 0 THEN "skip"
    ELSE "keep"

RawValueBigEndian(raw_value_bytes) ==
    LET step(acc, k) == Or48(acc, ShiftLeft(raw_value_bytes[k + 1], 5 - k))
    IN step(step(step(step(step(step(Small(0), 0), 1), 2), 3), 4), 5)

\* raw_value = 0; for k, byte_val in enumerate(raw_value_bytes):
\*     raw_value |= (byte_val << (k * 8))
RawValue(raw_value_bytes) ==
    LET step(acc, k) == Or48(acc, ShiftLeft(raw_value_bytes[k + 1], k))
    IN step(step(step(step(step(step(Small(0), 0), 1), 2), 3), 4), 5)

\* raw_value_bytes[0] if attr_id == 0xC2 else raw_value
SurfacedValue(attr_id, raw_value_bytes) ==
    IF attr_id = 194 THEN Small(raw_value_bytes[1]) ELSE RawValue(raw_value_bytes)

LoopGuardOffByOne(byte_array, i) == i + 11 < Len(byte_array)

\* while i + 10 < len(byte_array)
LoopGuard(byte_array, i) == i + 10 < Len(byte_array)

RECURSIVE ParseLoop(_, _, _, _)
\* the while loop of parse_smart_data; i is the 0-based index of the code.
\* log lists the accepted records in order: offset, id, name, stored value.
\* Inside the loop no index leaves the array (the guard gives i + 10 < len),
\* so the inner except clause and the "Not enough bytes" break never run.
ParseLoop(byte_array, i, attributes, log) ==
    IF ~LoopGuard(byte_array, i)
    THEN [attributes |-> attributes, i |-> i, log |-> log]
    ELSE LET attr_id == byte_array[i + 1] IN
         IF ~(1 <= attr_id /\ attr_id <= 255)
         THEN ParseLoop(byte_array, i + 1, attributes, log)
         ELSE LET raw_value_bytes == SubSeq(byte_array, i + 6, i + 11)
                  attr_name == AttrName(attr_id)
                  value == SurfacedValue(attr_id, raw_value_bytes)
              IN ParseLoop(byte_array, i + 11,
                           (attr_name :> value) @@ attributes,
                           Append(log, [off |-> i, id |-> attr_id,
                                        name |-> attr_name, value |-> value]))

\* the body of the outer try block of parse_smart_data
SmartBody(smart_data_hex) ==
    LET byte_array == ByteArray(HexClean(smart_data_hex))
        header == HeaderCheck(byte_array)
    IN IF header = "IndexError"
       THEN [raised |-> "IndexError", attributes |-> <<>>, i |-> 0, log |-> <<>>]
       ELSE LET r == ParseLoop(byte_array, IF header = "skip" THEN 2 ELSE 0, <<>>, <<>>)
            IN [raised |-> "none", attributes |-> r.attributes, i |-> r.i, log |-> r.log]

parse_smart_data_no_outer_try(smart_data_hex) ==
    LET b == SmartBody(smart_data_hex)
    IN [raised |-> b.raised, attributes |-> b.attributes, i |-> b.i, log |-> b.log]

\* parse_smart_data: the outer "except Exception" returns {} for any failure
parse_smart_data(smart_data_hex) ==
    LET b == SmartBody(smart_data_hex)
    IN IF b.raised # "none"
       THEN [raised |-> "none", attributes |-> <<>>, i |-> b.i, log |-> <<>>]
       ELSE [raised |-> "none", attributes |-> b.attributes, i |-> b.i, log |-> b.log]


\* ------------------------------------------------------------ JSON values
\* What json.loads returns: t is the Python type, n the number (or 0/1 of a
\* bool), s the string, o the members of a dict (keyed by strings) or the
\* elements of a list; a str built by JText also keeps its characters in o.
JInt(n) == [t |-> "int", n |-> n, s |-> "", o |-> <<>>]
JStr(s) == [t |-> "str", n |-> 0, s |-> s, o |-> <<>>]
JBool(b) == [t |-> "bool", n |-> IF b THEN 1 ELSE 0, s |-> "", o |-> <<>>]
JNull == [t |-> "null", n |-> 0, s |-> "", o |-> <<>>]
JObj(f) == [t |-> "obj", n |-> 0, s |-> "", o |-> f]
JArr(q) == [t |-> "arr", n |-> 0, s |-> "", o |-> q]

RECURSIVE Join(_)
\* the str made of the characters of a text
Join(chars) == IF chars = <<>> THEN "" ELSE Head(chars) \o Join(Tail(chars))

JText(chars) == [t |-> "str", n |-> 0, s |-> Join(chars), o |-> chars]

\* hasattr(v, "get"): only a dict has .get; anything else raises AttributeError
IsObj(v) == v.t = "obj"

\* (k in v) raises TypeError for a value that is no container
InRaises(v) == v.t \in {"int", "bool", "null"}

\* (k in v) for a container: a key of a dict, an element of a list; for a
\* str Python tests for a substring, which the drawn strings satisfy only
\* when equal to k
KeyIn(k, v) ==
    CASE v.t = "obj" -> k \in DOMAIN v.o
      [] v.t = "arr" -> \E j \in DOMAIN v.o : v.o[j] = JStr(k)
      [] v.t = "str" -> v.s = k
      [] OTHER -> FALSE

\* v.get(k, default) of a dict v
Get(v, k, default) == IF k \in DOMAIN v.o THEN v.o[k] ELSE default

\* v[k] with a string key: KeyError when a dict lacks it, TypeError when v
\* is no dict
Index(v, k) ==
    IF v.t # "obj" THEN [raised |-> "TypeError", v |-> JNull]
    ELSE IF k \notin DOMAIN v.o THEN [raised |-> "KeyError", v |-> JNull]
    ELSE [raised |-> "none", v |-> v.o[k]]

\* v[k1][k2]
Index2(v, k1, k2) ==
    LET a == Index(v, k1)
    IN IF a.raised # "none" THEN a ELSE Index(a.v, k2)

\* bool(v)
Truthy(v) ==
    CASE v.t \in {"int", "bool"} -> v.n # 0
      [] v.t = "str" -> v.s # ""
      [] v.t \in {"obj", "arr"} -> DOMAIN v.o # {}
      [] OTHER -> FALSE

\* the strings float() and int() accept among the drawn ones, and their value
NumericStrings == ("0" :> 0) @@ ("12" :> 12) @@ ("45" :> 45)

\* float(v): [raised, n]
Float(v) ==
    CASE v.t \in {"int", "bool"} -> [raised |-> "none", n |-> v.n]
      [] v.t = "str" -> IF v.s \in DOMAIN NumericStrings
                        THEN [raised |-> "none", n |-> NumericStrings[v.s]]
                        ELSE [raised |-> "ValueError", n |-> 0]
      [] OTHER -> [raised |-> "TypeError", n |-> 0]

\* str(n) of a small non-negative integer
IntStr(n) == IF n < 10 THEN HexDigits[n + 1]
             ELSE HexDigits[(n \div 10) + 1] \o HexDigits[(n % 10) + 1]

\* str(v) as an f-string or a label renders it (scalars only)
Str(v) == IF v.t = "str" THEN v.s ELSE IntStr(v.n)

\* merge of attribute dicts; the left operand is the later assignment
Merge(later, earlier) == later @@ earlier

\* ------------------------------------------------- smartctl JSON decoders
\* attribute_map of parse_smartctl_nvme
nvme_attribute_map ==
    ("critical_warning" :> "critical_warning") @@
    ("temperature" :> "temperature_celsius") @@
    ("available_spare" :> "available_spare_percent") @@
    ("available_spare_threshold" :> "available_spare_threshold_percent") @@
    ("percentage_used" :> "percentage_used") @@
    ("data_units_read" :> "data_units_read") @@
    ("data_units_written" :> "data_units_written") @@
    ("host_reads" :> "host_reads") @@ ("host_writes" :> "host_writes") @@
    ("controller_busy_time" :> "controller_busy_time_minutes") @@
    ("power_cycles" :> "power_cycles") @@
    ("power_on_hours" :> "power_on_hours") @@
    ("unsafe_shutdowns" :> "unsafe_shutdowns") @@
    ("media_errors" :> "media_errors") @@
    ("num_err_log_entries" :> "error_log_entries") @@
    ("warning_temp_time" :> "warning_temperature_time_minutes") @@
    ("critical_comp_time" :> "critical_composite_temperature_time_minutes")

\* value * 512 * 1000: an int is scaled, a str or list is repeated (and
\* stays a str or list), anything else raises TypeError
NvmeScale(value) ==
    CASE value.t \in {"int", "bool"} -> [raised |-> "none", v |-> JInt(value.n * 512 * 1000)]
      [] value.t \in {"str", "arr"} -> [raised |-> "none", v |-> value]
      [] OTHER -> [raised |-> "TypeError", v |-> JNull]

\* 100 - value
NvmeInvert(value) ==
    IF value.t \in {"int", "bool"}
    THEN [raised |-> "none", v |-> JInt(100 - value.n)]
    ELSE [raised |-> "TypeError", v |-> JNull]

\* one pass of the loop over attribute_map for a key the log has
NvmeEntry(json_key, value) ==
    LET scaled == IF json_key \in {"data_units_read", "data_units_written"}
                  THEN NvmeScale(value) ELSE [raised |-> "none", v |-> value]
        inverted == IF json_key = "percentage_used" /\ scaled.raised = "none"
                    THEN NvmeInvert(scaled.v) ELSE scaled
    IN [raised |-> inverted.raised,
        name |-> IF json_key = "percentage_used" THEN "ssd_life_left"
                 ELSE nvme_attribute_map[json_key],
        v |-> inverted.v]

\* the try body of parse_smartctl_nvme after json.loads: [raised, attrs, serial].
\* temperature_sensors is drawn as a list or a scalar; enumerate() of a scalar
\* raises TypeError (a dict or str there, which Python would iterate, is not
\* drawn and is treated like a scalar).
NvmeBody(data) ==
    IF ~IsObj(data) THEN [raised |-> "AttributeError", attrs |-> <<>>, serial |-> JNull]
    ELSE
    LET serial == Get(data, "serial_number", JStr("unknown"))
        smart_log == Get(data, "nvme_smart_health_information_log", JObj(<<>>))
        keys == {k \in DOMAIN nvme_attribute_map : KeyIn(k, smart_log)}
        failure == [raised |-> "TypeError", attrs |-> <<>>, serial |-> serial]
    IN IF InRaises(smart_log) THEN failure
       ELSE IF keys # {} /\ ~IsObj(smart_log) THEN failure
       ELSE IF \E k \in keys : NvmeEntry(k, smart_log.o[k]).raised # "none" THEN failure
       ELSE
       LET mapped == [m \in {NvmeEntry(k, smart_log.o[k]).name : k \in keys} |->
                        LET k == CHOOSE k \in keys : NvmeEntry(k, smart_log.o[k]).name = m
                        IN NvmeEntry(k, smart_log.o[k]).v]
           hasSensors == KeyIn("temperature_sensors", smart_log)
           sensorList == IF hasSensors /\ IsObj(smart_log)
                         THEN smart_log.o["temperature_sensors"] ELSE JArr(<<>>)
           sensors == [m \in {"temperature_sensor_" \o IntStr(j) \o "_celsius" :
                                 j \in DOMAIN sensorList.o} |->
                         LET j == CHOOSE j \in DOMAIN sensorList.o :
                                    m = "temperature_sensor_" \o IntStr(j) \o "_celsius"
                         IN sensorList.o[j]]
           capacity == IF "nvme_total_capacity" \in DOMAIN data.o
                       THEN "total_capacity_bytes" :> data.o["nvme_total_capacity"]
                       ELSE <<>>
           hasStatus == "smart_status" \in DOMAIN data.o
           status == IF hasStatus THEN data.o["smart_status"] ELSE JObj(<<>>)
           passed == IF KeyIn("passed", status) /\ IsObj(status)
                     THEN "smart_status_passed" :>
                            JInt(IF Truthy(status.o["passed"]) THEN 1 ELSE 0)
                     ELSE <<>>
       IN IF hasSensors /\ (~IsObj(smart_log) \/ sensorList.t # "arr") THEN failure
          ELSE IF hasStatus /\ InRaises(status) THEN failure
          ELSE IF hasStatus /\ KeyIn("passed", status) /\ ~IsObj(status) THEN failure
          ELSE [raised |-> "none",
                attrs |-> Merge(passed, Merge(capacity, Merge(sensors, mapped))),
                serial |-> serial]


\* a section of parse_smartctl_scsi that stores data[k1][k2] under name when
\* k1 is in data
ScsiNested(data, k1, k2, name) ==
    IF k1 \notin DOMAIN data.o THEN [raised |-> "none", attrs |-> <<>>]
    ELSE LET r == Index2(data, k1, k2)
         IN [raised |-> r.raised,
             attrs |-> IF r.raised = "none" THEN name :> r.v ELSE <<>>]

\* a section that stores data[k] as it is
ScsiPlain(data, k, name) ==
    [raised |-> "none",
     attrs |-> IF k \in DOMAIN data.o THEN name :> data.o[k] ELSE <<>>]

\* lines 211-216: the start-stop cycle counters, each defaulting to 0
ScsiCycle(data) ==
    IF "scsi_start_stop_cycle_counter" \notin DOMAIN data.o
    THEN [raised |-> "none", attrs |-> <<>>]
    ELSE LET cycle == data.o["scsi_start_stop_cycle_counter"]
             names == {"specified_cycle_count_over_device_lifetime",
                       "accumulated_start_stop_cycles",
                       "specified_load_unload_count_over_device_lifetime",
                       "accumulated_load_unload_cycles"}
         IN IF ~IsObj(cycle) THEN [raised |-> "AttributeError", attrs |-> <<>>]
            ELSE [raised |-> "none",
                  attrs |-> [m \in names |-> Get(cycle, m, JInt(0))]]

\* the counters read from one operation's error log, gigabytes_processed apart
ScsiOpFields ==
    {"errors_corrected_by_eccfast", "errors_corrected_by_eccdelayed",
     "errors_corrected_by_rereads_rewrites", "total_errors_corrected",
     "correction_algorithm_invocations", "total_uncorrected_errors"}

\* lines 226-234 for one op of ["read", "write", "verify"]
ScsiOp(error_log, op) ==
    IF ~KeyIn(op, error_log) THEN [raised |-> "none", attrs |-> <<>>]
    ELSE IF ~IsObj(error_log) THEN [raised |-> "TypeError", attrs |-> <<>>]
    ELSE LET op_data == error_log.o[op]
             gb == IF IsObj(op_data)
                   THEN Float(Get(op_data, "gigabytes_processed", JStr("0")))
                   ELSE [raised |-> "AttributeError", n |-> 0]
         IN IF ~IsObj(op_data) THEN [raised |-> "AttributeError", attrs |-> <<>>]
            ELSE IF gb.raised # "none" THEN [raised |-> gb.raised, attrs |-> <<>>]
            ELSE [raised |-> "none",
                  attrs |-> Merge((op \o "_gigabytes_processed") :> JInt(gb.n),
                                  [m \in {op \o "_" \o f : f \in ScsiOpFields} |->
                                     LET f == CHOOSE f \in ScsiOpFields : m = op \o "_" \o f
                                     IN Get(op_data, f, JInt(0))])]

\* lines 223-234: the error counter log
ScsiErrorLog(data) ==
    IF "scsi_error_counter_log" \notin DOMAIN data.o
    THEN [raised |-> "none", attrs |-> <<>>]
    ELSE LET error_log == data.o["scsi_error_counter_log"]
             r == ScsiOp(error_log, "read")
             w == ScsiOp(error_log, "write")
             v == ScsiOp(error_log, "verify")
         IN IF InRaises(error_log) THEN [raised |-> "TypeError", attrs |-> <<>>]
            ELSE IF r.raised # "none" THEN r
            ELSE IF w.raised # "none" THEN w
            ELSE IF v.raised # "none" THEN v
            ELSE [raised |-> "none", attrs |-> Merge(v.attrs, Merge(w.attrs, r.attrs))]

\* lines 241-249: one self-test result
ScsiSelfTest(data, key, prefix) ==
    IF key \notin DOMAIN data.o THEN [raised |-> "none", attrs |-> <<>>]
    ELSE LET test == data.o[key]
             result == Index2(test, "result", "value")
             hours == Index2(test, "power_on_time", "hours")
         IN IF result.raised # "none" THEN [raised |-> result.raised, attrs |-> <<>>]
            ELSE IF hours.raised # "none" THEN [raised |-> hours.raised, attrs |-> <<>>]
            ELSE [raised |-> "none",
                  attrs |-> ((prefix \o "_result") :> result.v) @@
                            ((prefix \o "_power_on_time") :> hours.v)]

\* lines 256-257: smart_status
ScsiStatus(data) ==
    IF "smart_status" \notin DOMAIN data.o THEN [raised |-> "none", attrs |-> <<>>]
    ELSE LET r == Index2(data, "smart_status", "passed")
         IN [raised |-> r.raised,
             attrs |-> IF r.raised = "none"
                       THEN "smart_status_passed" :> JInt(IF Truthy(r.v) THEN 1 ELSE 0)
                       ELSE <<>>]

\* the sections of parse_smartctl_scsi in the order of the code
ScsiSections(data) ==
    << ScsiNested(data, "temperature", "current", "temperature_celsius"),
       ScsiNested(data, "power_on_time", "hours", "power_on_hours"),
       ScsiCycle(data),
       ScsiPlain(data, "scsi_grown_defect_list", "grown_defect_list"),
       ScsiErrorLog(data),
       ScsiNested(data, "scsi_pending_defects", "count", "pending_defects_count"),
       ScsiSelfTest(data, "scsi_self_test_0", "self_test_0"),
       ScsiSelfTest(data, "scsi_self_test_1", "self_test_1"),
       ScsiPlain(data, "scsi_extended_self_test_seconds", "extended_self_test_seconds"),
       ScsiStatus(data) >>

RECURSIVE MergeAll(_)
MergeAll(sections) ==
    IF sections = <<>> THEN <<>>
    ELSE Merge(MergeAll(Tail(sections)), Head(sections).attrs)

\* the try body of parse_smartctl_scsi after json.loads: [raised, attrs, serial]
ScsiBody(data) ==
    IF ~IsObj(data) THEN [raised |-> "AttributeError", attrs |-> <<>>, serial |-> JNull]
    ELSE LET sections == ScsiSections(data)
             serial == Get(data, "serial_number", JStr("unknown"))
         IN IF \E j \in DOMAIN sections : sections[j].raised # "none"
            THEN [raised |-> "Exception", attrs |-> <<>>, serial |-> serial]
            ELSE [raised |-> "none", attrs |-> MergeAll(sections), serial |-> serial]


\* the except clause of both smartctl decoders: it formats out[:1000] into
\* the log message before returning ({}, "unknown"). out is assigned by the
\* first statement of the try block, so when run_remote_cmd itself raised,
\* out is unbound and the clause raises UnboundLocalError.
HealthExcept(out_bound) ==
    IF out_bound
    THEN [raised |-> "none", attrs |-> <<>>, serial |-> JStr("unknown")]
    ELSE [raised |-> "UnboundLocalError", attrs |-> <<>>, serial |-> JNull]

\* parse_smartctl_nvme on the result of its remote command: res.rc is the
\* exit status, res.valid whether json.loads accepts stdout, res.json what
\* it returns
parse_smartctl_nvme(res) ==
    IF res.rc # 0 THEN HealthExcept(FALSE)
    ELSE IF ~res.valid THEN HealthExcept(TRUE)
    ELSE LET b == NvmeBody(res.json)
         IN IF b.raised # "none" THEN HealthExcept(TRUE) ELSE b

\* parse_smartctl_scsi on the result of its remote command
parse_smartctl_scsi(res) ==
    IF res.rc # 0 THEN HealthExcept(FALSE)
    ELSE IF ~res.valid THEN HealthExcept(TRUE)
    ELSE LET b == ScsiBody(res.json)
         IN IF b.raised # "none" THEN HealthExcept(TRUE) ELSE b

\* ------------------------------------------------------------------ texts
RECURSIVE SplitFrom(_, _, _)
SplitFrom(chars, sep, cur) ==
    IF chars = <<>> THEN <<cur>>
    ELSE IF Head(chars) = sep THEN <<cur>> \o SplitFrom(Tail(chars), sep, <<>>)
    ELSE SplitFrom(Tail(chars), sep, Append(cur, Head(chars)))

\* chars.split(sep)
Split(chars, sep) == SplitFrom(chars, sep, <<>>)

\* chars.replace(c, '')
Remove(chars, c) == SelectSeq(chars, LAMBDA x : x # c)

IsSpace(c) == c \in {" ", "\n", "\t", "\r"}

RECURSIVE LStrip(_)
LStrip(chars) ==
    IF chars # <<>> /\ IsSpace(Head(chars)) THEN LStrip(Tail(chars)) ELSE chars

RECURSIVE RStrip(_)
RStrip(chars) ==
    IF chars # <<>> /\ IsSpace(chars[Len(chars)])
    THEN RStrip(SubSeq(chars, 1, Len(chars) - 1)) ELSE chars

\* chars.strip()
Strip(chars) == RStrip(LStrip(chars))

IsDigit(c) == \E v \in 1..10 : HexDigits[v] = c

RECURSIVE DigitsValue(_, _)
DigitsValue(chars, acc) ==
    IF chars = <<>> THEN acc
    ELSE DigitsValue(Tail(chars), 10 * acc + HexVal(Head(chars)))

\* int(chars) for the drawn texts: decimal digits, or ValueError
ParseInt(chars) ==
    IF chars # <<>> /\ \A j \in DOMAIN chars : IsDigit(chars[j])
    THEN [raised |-> "none", n |-> DigitsValue(chars, 0)]
    ELSE [raised |-> "ValueError", n |-> 0]

\* ---------------------------------------------------------------- registry
\* The CollectorRegistry of one PercMetrics object: the samples of its
\* gauges, one per (metric, label values); the value is kept as limbs.
GaugeSet(registry, metric, labels, value) ==
    {x \in registry : ~(x.metric = metric /\ x.labels = labels)}
        \cup {[metric |-> metric, labels |-> labels, value |-> value]}

\* float(v) of Gauge.set(v) for a JSON value
GaugeValue(v) == Float(v)

\* the loop "for k, v in attrs.items(): drive_smart.labels(...).set(v)" of
\* lines 325-326 over a decoder's attributes. The first value float()
\* rejects raises; the samples set before it stay in a registry that is
\* never rendered, so the registry is returned as it was.
SetJsonAttrs(registry, controller, drive, attrs) ==
    IF \E k \in DOMAIN attrs : GaugeValue(attrs[k]).raised # "none"
    THEN [raised |-> "ValueError", registry |-> registry]
    ELSE [raised |-> "none",
          registry |->
            {x \in registry : ~(x.metric = "drive_smart"
                                 /\ \E k \in DOMAIN attrs : x.labels = <<controller, drive, k>>)}
            \cup {[metric |-> "drive_smart", labels |-> <<controller, drive, k>>,
                   value |-> Small(GaugeValue(attrs[k]).n)] : k \in DOMAIN attrs}]

\* the same loop of lines 381-382 over the hex decoder's attributes (ints)
SetSmartAttrs(registry, controller, drive, smart_attributes) ==
    {x \in registry : ~(x.metric = "drive_smart"
                         /\ \E k \in DOMAIN smart_attributes :
                              x.labels = <<controller, drive, k>>)}
    \cup {[metric |-> "drive_smart", labels |-> <<controller, drive, k>>,
           value |-> smart_attributes[k]] : k \in DOMAIN smart_attributes}


\* ------------------------------------------------------ controller handlers
\* response.get(k, {}) for a dict member that is itself a dict
Section(response, k) == Get(response, k, JObj(<<>>))

\* response.get("Basics", {}).get("Controller", "Unknown")
ControllerIndex(response) == Get(Section(response, "Basics"), "Controller", JStr("Unknown"))

\* response.get("Version", {}).get("Driver Name", "Unknown")
DriverName(response) == Get(Section(response, "Version"), "Driver Name", JStr("Unknown"))

\* driver_name in ["megaraid_sas", "lsi-mr3"]
IsMegaraid(response) == DriverName(response) \in {JStr("megaraid_sas"), JStr("lsi-mr3")}

\* 1 if response.get("Status", {}).get("Controller Status") == "Optimal" else 0
ControllerStatus(response) ==
    IF Get(Section(response, "Status"), "Controller Status", JNull) = JStr("Optimal")
    THEN 1 ELSE 0

\* handle_common_controller: [raised, registry]
handle_common_controller(response, registry) ==
    LET controller_index == Str(ControllerIndex(response))
        basics == Section(response, "Basics")
        model == Get(basics, "Model", JStr("Unknown"))
        serial == Get(basics, "Serial Number", JStr("Unknown"))
        fwversion == Get(Section(response, "Version"), "Firmware Version", JStr("Unknown"))
        info == GaugeSet(registry, "controller_info",
                         <<controller_index, Str(model), Str(serial), Str(fwversion)>>,
                         Small(1))
        status == GaugeSet(info, "controller_status", <<controller_index>>,
                           Small(ControllerStatus(response)))
        hwcfg == Section(response, "HwCfg")
        keys == <<"ROC temperature(Degree Celcius)", "ROC temperature(Degree Celsius)">>
        found == {j \in 1..2 : keys[j] \in DOMAIN hwcfg.o}
        temp == IF found = {} THEN [raised |-> "none", n |-> 0]
                ELSE GaugeValue(hwcfg.o[keys[CHOOSE j \in found : \A h \in found : j <= h]])
    IN IF temp.raised # "none" THEN [raised |-> temp.raised, registry |-> status]
       ELSE IF found = {} THEN [raised |-> "none", registry |-> status]
       ELSE [raised |-> "none",
             registry |-> GaugeSet(status, "controller_temperature",
                                   <<controller_index>>, Small(temp.n))]

\* drive.get("EID:Slt", "0:0").split(":")[:2] unpacked into two names:
\* ValueError when the text has no colon
EidSlt(drive) ==
    LET parts == Split(Get(drive, "EID:Slt", JText(<<"0", ":", "0">>)).o, ":")
    IN IF Len(parts) < 2
       THEN [raised |-> "ValueError", enclosure |-> "", slot |-> ""]
       ELSE [raised |-> "none", enclosure |-> Join(parts[1]), slot |-> Join(parts[2])]

\* f"/c{controller_index}/e{enclosure}/s{slot}"
DrivePath(response, drive) ==
    "/c" \o Str(ControllerIndex(response)) \o "/e" \o EidSlt(drive).enclosure
         \o "/s" \o EidSlt(drive).slot

\* response.get("PD LIST", []) as a sequence
PdList(response) == Get(response, "PD LIST", JArr(<<>>)).o

\* create_metrics_of_physical_drive (the caller has split EID:Slt already,
\* so the split here cannot raise)
create_metrics_of_physical_drive(physical_drive, controller_index, smart_attributes, registry) ==
    LET drive_identifier == "Drive /c" \o controller_index \o "/e"
                              \o EidSlt(physical_drive).enclosure \o "/s"
                              \o EidSlt(physical_drive).slot
        state == Get(physical_drive, "State", JStr("Unknown"))
        status == GaugeSet(registry, "drive_status", <<controller_index, drive_identifier>>,
                           Small(IF state = JStr("Onln") THEN 1 ELSE 0))
        temp == IF "Temp" \in DOMAIN physical_drive.o
                THEN ParseInt(Remove(physical_drive.o["Temp"].o, "C"))
                ELSE [raised |-> "absent", n |-> 0]
        withTemp == IF temp.raised = "none"
                    THEN GaugeSet(status, "drive_temp",
                                  <<controller_index, drive_identifier>>, Small(temp.n))
                    ELSE status
    IN SetSmartAttrs(withTemp, controller_index, drive_identifier, smart_attributes)

\* get_perccli_smart after its command returned: the group the regular
\* expression captures (out.block says whether it matched, out.text is the
\* group), with newlines removed and stripped; "" without a match
SmartDataOf(out) == IF out.block THEN Strip(Remove(out.text, "\n")) ELSE <<>>

RECURSIVE VirtualDrives(_, _, _)
\* the loop over "VD LIST" of handle_megaraid_controller
VirtualDrives(vds, controller_index, registry) ==
    IF vds = <<>> THEN registry
    ELSE LET vd == Head(vds)
             parts == Split(Get(vd, "DG/VD", JText(<<"0", "/", "0">>)).o, "/")
             vd_id == "DG" \o Join(parts[1]) \o "/VD" \o Join(parts[2])
             status == IF Get(vd, "State", JStr("Unknown")) = JStr("Optl") THEN 1 ELSE 0
         IN VirtualDrives(Tail(vds), controller_index,
                          GaugeSet(registry, "virtual_drive_status",
                                   <<controller_index, vd_id>>, Small(status)))

\* the BBU lines 364-367 of handle_megaraid_controller
BbuHealth(response, registry) ==
    LET bbu_status == Get(Section(response, "Status"), "BBU Status", JStr("NA"))
    IN IF bbu_status = JStr("NA") THEN registry
       ELSE GaugeSet(registry, "bbu_health", <<Str(ControllerIndex(response))>>,
                     Small(IF bbu_status \in {JInt(0), JInt(8), JInt(4096)} THEN 1 ELSE 0))

\* what handle_megaraid_controller does after its loop over the drives
AfterDrives(response, registry) ==
    BbuHealth(response,
              VirtualDrives(Get(response, "VD LIST", JArr(<<>>)).o,
                            Str(ControllerIndex(response)), registry))


\* --------------------------------------------------------- device discovery
\* What the code derives from the -d argument of a scan line: its lower
\* case, and d_arg.replace("-d ", "").replace(",", "_")
DArgs ==
    ("-d nvme" :> [lower |-> "-d nvme", id |-> "nvme"]) @@
    ("-d NVMe" :> [lower |-> "-d nvme", id |-> "NVMe"]) @@
    ("-d scsi" :> [lower |-> "-d scsi", id |-> "scsi"]) @@
    ("-d megaraid,0" :> [lower |-> "-d megaraid,0", id |-> "megaraid_0"]) @@
    ("-d sat" :> [lower |-> "-d sat", id |-> "sat"])

\* "-d nvme" in d_arg.lower()
IsNvmeArg(d_arg) == DArgs[d_arg].lower = "-d nvme"

\* "-d scsi" in l or "-d megaraid" in l or "-d sat+megaraid" in l
IsScsiArg(d_arg) == DArgs[d_arg].lower \in {"-d scsi", "-d megaraid,0"}

RECURSIVE Detect(_)
\* the loop over the lines of the scan output. A line is [hash: it starts
\* with "#", open_failed: it contains "open failed", match: the regular
\* expression matches, dev_path, d_arg, disk_id: its three groups ("" for a
\* group that did not take part)]
Detect(lines) ==
    IF lines = <<>> THEN <<>>
    ELSE LET line == Head(lines)
             disk_id == IF line.disk_id # "" THEN line.disk_id ELSE DArgs[line.d_arg].id
             smartctl_cmd == "smartctl -a -j " \o line.dev_path \o " " \o line.d_arg
             found == IF line.hash \/ line.open_failed \/ ~line.match THEN <<>>
                      ELSE IF IsNvmeArg(line.d_arg)
                      THEN << [dtype |-> "nvme", dev_path |-> line.dev_path,
                               smartctl_cmd |-> smartctl_cmd, disk_id |-> disk_id] >>
                      ELSE IF IsScsiArg(line.d_arg)
                      THEN << [dtype |-> "scsi", dev_path |-> line.dev_path,
                               smartctl_cmd |-> smartctl_cmd, disk_id |-> disk_id] >>
                      ELSE <<>>
         IN found \o Detect(Tail(lines))

\* discover_scsi_nvme_devices on the result of its remote command; a failed
\* command raises inside the try block and leaves the list empty
discover_scsi_nvme_devices(res) == IF res.rc # 0 THEN <<>> ELSE Detect(res.lines)

\* ------------------------------------------------------------ route, config
\* config["targets"]: the mapping loaded from the configuration file
config ==
    ("esx1" :> [username |-> "root", password |-> "pw1"]) @@
    ("esx2" :> [username |-> "monitor", password |-> "pw2"])

\* request.args.get(k): None ([some |-> FALSE]) for a missing parameter
ArgsGet(args, k) ==
    IF k \in DOMAIN args THEN [some |-> TRUE, v |-> args[k]]
    ELSE [some |-> FALSE, v |-> ""]

TargetRejectedOnlyWhenMissing(target) == ~target.some \/ target.v = ""

\* the two early returns of metrics_route:
\*   if not target: ...400      if target not in config["targets"]: ...400
TargetRejected(target) ==
    \/ ~target.some \/ target.v = ""
    \/ target.v \notin DOMAIN config

\* the user and host of the ssh command line of _run_perccli_command
PerccliLogin(self) == [user |-> self.username, host |-> self.host]

\* the user and host of the ssh command line of run_remote_cmd
RemoteLogin(self) == [user |-> "root", host |-> "103.90.225.9"]

TopologyOutcomeForgiving(res) ==
    IF res.rc # 0 \/ ~res.valid
    THEN [raised |-> "none", data |-> JObj(<<>>)]
    ELSE [raised |-> "none", data |-> res.json]

\* get_perccli_json / _run_perccli_command(expect_json=True) on the result
\* of the command: RuntimeError for a non-zero exit status and for output
\* json.loads rejects
TopologyOutcome(res) ==
    IF res.rc # 0 THEN [raised |-> "RuntimeError", data |-> JNull]
    ELSE IF ~res.valid THEN [raised |-> "RuntimeError", data |-> JNull]
    ELSE [raised |-> "none", data |-> res.json]

\* lines 297-298 of main: data.get raises AttributeError when the root is no
\* dict, len(controllers) raises TypeError for a scalar
ControllersOf(data) ==
    IF ~IsObj(data) THEN [raised |-> "AttributeError", controllers |-> <<>>]
    ELSE LET c == Get(data, "Controllers", JArr(<<>>))
         IN IF InRaises(c) THEN [raised |-> "TypeError", controllers |-> <<>>]
            ELSE [raised |-> "none", controllers |-> c.o]


\* ------------------------------------------------- what the remote host says
\* The remote host is outside the program: each command's result is drawn
\* from the sets below when the command returns.

\* two hexadecimal digits of a byte, lower or upper case
HexByte(b, upper) ==
    IF upper THEN <<UpperHexDigits[(b \div 16) + 1], UpperHexDigits[(b % 16) + 1]>>
    ELSE <<HexDigits[(b \div 16) + 1], HexDigits[(b % 16) + 1]>>

RECURSIVE Encode(_, _)
\* a byte sequence as hexadecimal text: "plain" is lower case without
\* separators, "dump" is upper case with a blank after every byte
Encode(bytes, style) ==
    IF bytes = <<>> THEN <<>>
    ELSE (IF style = "plain" THEN HexByte(Head(bytes), FALSE)
          ELSE HexByte(Head(bytes), TRUE) \o <<" ">>) \o Encode(Tail(bytes), style)

\* an 11-byte SMART record: id, flags (2 bytes), normalized, worst, raw (6)
Rec(id, flags, raw) == <<id>> \o flags \o raw

\* results of "<drive> show smart": exit status, whether the output holds a
\* "Smart Data Info" block, and the hex text of the block
SmartResults ==
    { [rc |-> 1, block |-> FALSE, text |-> <<>>],
      [rc |-> 0, block |-> FALSE, text |-> <<>>],
      [rc |-> 0, block |-> TRUE,
       text |-> Encode(Rec(9, <<50, 0, 100, 100>>, <<100, 0, 0, 0, 0, 0>>), "dump")
                  \o <<"\n">>],
      [rc |-> 0, block |-> TRUE,
       text |-> Encode(<<47, 0>> \o Rec(194, <<34, 0, 70, 60>>, <<30, 0, 20, 0, 45, 0>>), "dump")
                  \o <<"\n">>
                  \o Encode(Rec(170, <<0, 0, 1, 1>>, <<1, 2, 3, 4, 5, 6>>), "dump")
                  \o <<"\n", " ">>] }

\* a physical drive of "PD LIST"
PD(j) ==
    JObj(("EID:Slt" :> JText(<<"3", "2", ":", IntStr(j - 1)>>)) @@
         ("State" :> JStr(IF j % 2 = 1 THEN "Onln" ELSE "Failed")) @@
         (IF j = 2 THEN <<>>
          ELSE "Temp" :> JText(IF j = 1 THEN <<"4", "5", "C">> ELSE <<"N", "/", "A">>)))

\* a virtual drive of "VD LIST"
VD(j) ==
    JObj(("DG/VD" :> JText(<<"0", "/", IntStr(j - 1)>>)) @@
         ("State" :> JStr(IF j = 1 THEN "Optl" ELSE "Dgrd")))

\* one element of "Controllers"; driver "" stands for a report without a
\* driver name
Ctrl(idx, driver, status, npd) ==
    JObj("Response Data" :> JObj(
        ("Basics" :> JObj(("Controller" :> JInt(idx)) @@
                          ("Model" :> JStr("PERC H730")) @@
                          ("Serial Number" :> JStr("SN" \o IntStr(idx))))) @@
        ("Version" :> JObj(("Firmware Version" :> JStr("25.5")) @@
                           (IF driver = "" THEN <<>> ELSE "Driver Name" :> JStr(driver)))) @@
        ("Status" :> JObj(("Controller Status" :> JStr(status)) @@
                          (IF idx = 0 THEN "BBU Status" :> JInt(0)
                           ELSE "BBU Status" :> JInt(32)))) @@
        ("HwCfg" :> JObj("ROC temperature(Degree Celsius)" :> JInt(60))) @@
        ("PD LIST" :> JArr([j \in 1..npd |-> PD(j)])) @@
        ("VD LIST" :> JArr([j \in 1..idx + 1 |-> VD(j)]))))

Drivers == {"megaraid_sas", "lsi-mr3", "mpt3sas", ""}
StatusTexts == {"Optimal", "OK", "Degraded"}

\* drives a controller of the drawn topologies lists
DrivesOf(driver) == IF driver = "megaraid_sas" THEN MaxDrives ELSE 1

\* the documents "/cALL show all J" prints
TopologyDocs ==
    { JObj("Controllers" :> JArr(<<Ctrl(0, d, st, DrivesOf(d))>>)) :
        d \in Drivers, st \in StatusTexts }
    \cup { JObj("Controllers" :> JArr(<<Ctrl(0, "mpt3sas", "OK", 1),
                                          Ctrl(1, "megaraid_sas", "Optimal", MaxDrives)>>)),
           JObj("Controllers" :> JArr(<<Ctrl(0, "lsi-mr3", "Degraded", 1),
                                          Ctrl(1, "lsi-mr3", "Optimal", 1)>>)),
           JObj("Controllers" :> JArr(<<>>)),
           JObj("Error" :> JStr("no controller found")),
           JArr(<<>>) }

\* results of the topology command: exit status, whether json.loads accepts
\* the output, and what it returns
TopologyResults ==
    { [rc |-> 1, valid |-> FALSE, json |-> JNull],
      [rc |-> 0, valid |-> FALSE, json |-> JNull] }
    \cup { [rc |-> 0, valid |-> TRUE, json |-> doc] : doc \in TopologyDocs }

ScanLine(dev_path, d_arg, disk_id) ==
    [hash |-> FALSE, open_failed |-> FALSE, match |-> TRUE,
     dev_path |-> dev_path, d_arg |-> d_arg, disk_id |-> disk_id]

\* results of "smartctl --scan-open"
ScanResults ==
    { [rc |-> 1, lines |-> <<>>],
      [rc |-> 0, lines |-> << [hash |-> TRUE, open_failed |-> FALSE, match |-> FALSE,
                               dev_path |-> "", d_arg |-> "", disk_id |-> ""] >>],
      [rc |-> 0, lines |-> << ScanLine("/dev/nvme0", "-d NVMe", "") >>],
      [rc |-> 0, lines |-> << ScanLine("/dev/sda", "-d scsi", "naa.5000c500"),
                              [hash |-> FALSE, open_failed |-> TRUE, match |-> TRUE,
                               dev_path |-> "/dev/sdb", d_arg |-> "-d scsi", disk_id |-> ""],
                              ScanLine("/dev/sdc", "-d sat", ""),
                              ScanLine("/dev/nvme1", "-d nvme", "") >>] }

\* reports of "smartctl -a -j" for an NVMe device
NvmeDocs ==
    { JObj(("serial_number" :> JStr("S4EW")) @@
           ("nvme_total_capacity" :> JInt(960)) @@
           ("smart_status" :> JObj("passed" :> JBool(TRUE))) @@
           ("nvme_smart_health_information_log" :>
               JObj(("temperature" :> JInt(35)) @@ ("percentage_used" :> JInt(7)) @@
                    ("data_units_written" :> JInt(2)) @@
                    ("temperature_sensors" :> JArr(<<JInt(35), JInt(40)>>))))),
      JObj(("serial_number" :> JStr("S4EX")) @@
           ("nvme_smart_health_information_log" :>
               JObj(("power_on_hours" :> JInt(10)) @@
                    ("temperature" :> JObj("current" :> JInt(35)))))),
      JObj(("serial_number" :> JStr("S4EY")) @@
           ("nvme_smart_health_information_log" :>
               JObj(("power_cycles" :> JInt(3)) @@ ("percentage_used" :> JStr("n/a"))))),
      JObj(("serial_number" :> JStr("S4EZ")) @@ ("smart_status" :> JInt(1))) }

\* reports of "smartctl -a -j" for a SCSI device
ScsiDocs ==
    { JObj(("serial_number" :> JStr("ZA1")) @@
           ("temperature" :> JObj("current" :> JInt(30))) @@
           ("power_on_time" :> JObj("hours" :> JInt(100))) @@
           ("scsi_grown_defect_list" :> JInt(0)) @@
           ("scsi_error_counter_log" :>
               JObj("read" :> JObj(("total_errors_corrected" :> JInt(1)) @@
                                   ("gigabytes_processed" :> JStr("12"))))) @@
           ("smart_status" :> JObj("passed" :> JBool(TRUE)))),
      JObj(("serial_number" :> JStr("ZA2")) @@
           ("power_on_time" :> JObj("hours" :> JInt(7))) @@
           ("temperature" :> JObj(<<>>))),
      JObj(("serial_number" :> JStr("ZA3")) @@
           ("power_on_time" :> JObj("hours" :> JInt(8))) @@
           ("scsi_grown_defect_list" :> JStr("unavailable"))),
      JObj(("serial_number" :> JStr("ZA4")) @@
           ("scsi_error_counter_log" :>
               JObj("write" :> JObj("gigabytes_processed" :> JStr("abc"))))) }

\* results of a health command
HealthResults(dtype) ==
    { [rc |-> 1, valid |-> FALSE, json |-> JNull],
      [rc |-> 0, valid |-> FALSE, json |-> JNull] }
    \cup { [rc |-> 0, valid |-> TRUE, json |-> doc] :
             doc \in IF dtype = "nvme" THEN NvmeDocs ELSE ScsiDocs }

\* the query strings of the drawn requests
RequestArgs ==
    { <<>>, "target" :> "", "target" :> "esx1", "target" :> "esx2", "target" :> "esx9" }


\* -------------------------------------------------------------------- state
VARIABLES
    pc,          \* where the request handler stands ("idle": no request)
    served,      \* requests received so far
    request,     \* request.args of the request being served (or last served)
    self,        \* the PercMetrics object of the request: username, host
    registry,    \* self.registry: the samples of the object's gauges
    cmds,        \* the remote commands the request issued, in order
    results,     \* what each returned command did, in the order of cmds
    outs,        \* what each returned command printed, in the order of cmds
    proc,        \* the remote process the handler waits for
    data,        \* main's local data: the parsed topology
    ci,          \* index of the controller main's loop stands at
    di,          \* index of the drive handle_megaraid_controller stands at
    extra_devs,  \* main's local extra_devs
    ei,          \* index of the device main's second loop stands at
    response,    \* the Response returned for the request (status 0: none yet)
    other,       \* the locals of the second handler thread while it does not run
    hexPc,       \* the decoder harness: "input" or "decoded"
    hexInput,    \* the text handed to parse_smart_data
    hexBytes,    \* the bytes the text was made from (<<>> for free text)
    hexRecords,  \* the number of 11-byte records hexBytes is made of
    hexResult    \* what parse_smart_data returned

reqVars == <<pc, served, request, self, registry, cmds, results, outs, proc, data,
             ci, di, extra_devs, ei, response, other>>
hexVars == <<hexPc, hexInput, hexBytes, hexRecords, hexResult>>
vars == <<pc, served, request, self, registry, cmds, results, outs, proc, data,
          ci, di, extra_devs, ei, response, other,
          hexPc, hexInput, hexBytes, hexRecords, hexResult>>

NoResponse == [status |-> 0, metrics |-> {}, diag |-> ""]
NoSelf == [username |-> "", host |-> ""]
NoDecode == [raised |-> "none", attributes |-> <<>>, i |-> 0, log |-> <<>>]

\* the except clauses of metrics_route: both answer 500 with a diagnostic
RouteError(exc) ==
    [status |-> 500, metrics |-> {},
     diag |-> IF exc = "RuntimeError" THEN "Error generating metrics for target"
              ELSE "An internal error occurred"]

\* what is recorded of a returned command: its exit status, the exception
\* that left the code reading it, whether fetching or decoding failed, and
\* of a decoder's return value: whether the attribute mapping is empty,
\* whether the serial is "unknown", whether an attribute is not numeric
Outcome(rc, raised, failed, empty, unknown, nonnumeric) ==
    [rc |-> rc, raised |-> raised, failed |-> failed, empty |-> empty,
     unknown |-> unknown, nonnumeric |-> nonnumeric]

\* Start with a second attempt of the command
StartWithRetry(kind, login, arg) ==
    /\ cmds' = Append(Append(cmds, [kind |-> kind, user |-> login.user,
                                    host |-> login.host, arg |-> arg]),
                      [kind |-> kind, user |-> login.user,
                       host |-> login.host, arg |-> arg])
    /\ \E p \in {"running", "hung"} : proc' = p

\* subprocess.Popen(cmd) followed by proc.communicate() without a timeout:
\* the command is started and the handler blocks until the remote process
\* ends, which a hung process never does. The "except TimeoutExpired"
\* clauses are unreachable, since communicate() is given no timeout.
Start(kind, login, arg) ==
    /\ cmds' = Append(cmds, [kind |-> kind, user |-> login.user,
                             host |-> login.host, arg |-> arg])
    /\ \E p \in {"running", "hung"} : proc' = p

\* the handler leaves main by an exception: metrics_route answers 500
Abort(exc) ==
    /\ pc' = "idle"
    /\ response' = RouteError(exc)

Controllers == ControllersOf(data).controllers

\* controller.get("Response Data", {}) of the controller the loop stands at
Response(j) == Get(Controllers[j], "Response Data", JObj(<<>>))

\* a registry that outlives the PercMetrics object
ReusedRegistry == registry

\* self.registry = CollectorRegistry(): every PercMetrics object makes its
\* own registry and registers its gauges there (registry=self.registry)
CollectorRegistry == {}

\* the locals of a handler thread that serves no request
IdleThread ==
    [pc |-> "idle", request |-> <<>>, self |-> NoSelf, registry |-> {},
     cmds |-> <<>>, results |-> <<>>, outs |-> <<>>, proc |-> "none",
     data |-> JNull, ci |-> 0, di |-> 0, extra_devs |-> <<>>, ei |-> 0,
     response |-> NoResponse]

Init ==
    /\ pc = "idle" /\ served = 0 /\ request = <<>> /\ self = NoSelf
    /\ registry = {} /\ cmds = <<>> /\ results = <<>> /\ outs = <<>> /\ proc = "none"
    /\ data = JNull /\ ci = 0 /\ di = 0 /\ extra_devs = <<>> /\ ei = 0
    /\ response = NoResponse /\ other = IdleThread
    /\ hexPc = "idle" /\ hexInput = <<>> /\ hexBytes = <<>> /\ hexRecords = 0
    /\ hexResult = NoDecode

\* metrics_route up to the first remote command: the target checks, the
\* construction of a PercMetrics (a fresh registry) and the start of main
Receive(args) ==
    /\ pc = "idle" /\ served < MaxRequests
    /\ served' = served + 1
    /\ request' = args
    /\ results' = <<>> /\ outs' = <<>> /\ data' = JNull /\ ci' = 0 /\ di' = 0
    /\ extra_devs' = <<>> /\ ei' = 0 /\ registry' = CollectorRegistry
    /\ LET target == ArgsGet(args, "target") IN
       IF TargetRejected(target)
       THEN /\ response' = [status |-> 400, metrics |-> {},
                            diag |-> IF ~target.some \/ target.v = ""
                                     THEN "Parameter 'target' is missing."
                                     ELSE "Invalid target"]
            /\ pc' = "idle" /\ self' = NoSelf /\ cmds' = <<>> /\ proc' = "none"
       ELSE IF target.v \notin DOMAIN config
       THEN \* config["targets"][target] outside the try block: KeyError,
            \* which the framework answers with 500
            /\ response' = [status |-> 500, metrics |-> {}, diag |-> "Internal Server Error"]
            /\ pc' = "idle" /\ self' = NoSelf /\ cmds' = <<>> /\ proc' = "none"
       ELSE /\ self' = [username |-> config[target.v].username, host |-> target.v]
            /\ response' = NoResponse
            /\ pc' = "wait_topology"
            /\ cmds' = << [kind |-> "topology",
                           user |-> PerccliLogin(self').user,
                           host |-> PerccliLogin(self').host,
                           arg |-> "/cALL show all J"] >>
            /\ \E p \in {"running", "hung"} : proc' = p
    /\ UNCHANGED <<other, hexVars>>

\* the topology command returns: lines 292-298 of main
TopologyReturns(res) ==
    /\ pc = "wait_topology" /\ proc = "running"
    /\ proc' = "none" /\ outs' = Append(outs, res)
    /\ LET t == TopologyOutcome(res)
           c == ControllersOf(t.data)
           exc == IF t.raised # "none" THEN t.raised ELSE c.raised
       IN /\ results' = Append(results,
                               Outcome(res.rc, exc, res.rc # 0 \/ ~res.valid,
                                       FALSE, FALSE, FALSE))
          /\ IF exc # "none"
             THEN /\ Abort(exc)
                  /\ data' = t.data /\ ci' = ci
             ELSE /\ data' = t.data /\ ci' = 1 /\ pc' = "controller"
                  /\ response' = response
    /\ UNCHANGED <<served, request, self, registry, cmds, di, extra_devs, ei>>
    /\ UNCHANGED <<other, hexVars>>

\* one pass of main's loop up to the first drive: handle_common_controller
\* and the family test
HandleController ==
    /\ pc = "controller" /\ ci <= Len(Controllers)
    /\ LET r == handle_common_controller(Response(ci), registry)
       IN IF r.raised # "none"
          THEN /\ Abort(r.raised) /\ registry' = r.registry /\ ci' = ci /\ di' = di
          ELSE /\ registry' = r.registry
               /\ response' = response
               /\ IF IsMegaraid(Response(ci))
                  THEN pc' = "drive" /\ di' = 1 /\ ci' = ci
                  ELSE pc' = "controller" /\ ci' = ci + 1 /\ di' = di
    /\ UNCHANGED <<served, request, self, cmds, results, outs, proc, data, extra_devs, ei>>
    /\ UNCHANGED <<other, hexVars>>

\* handle_megaraid_controller reaches a drive: it splits EID:Slt and starts
\* the drive's SMART command (get_perccli_smart)
StartDrive ==
    /\ pc = "drive" /\ di <= Len(PdList(Response(ci)))
    /\ LET drive == PdList(Response(ci))[di]
       IN IF EidSlt(drive).raised # "none"
          THEN Abort(EidSlt(drive).raised) /\ UNCHANGED <<cmds, proc>>
          ELSE /\ pc' = "wait_smart" /\ response' = response
               /\ Start("smart", PerccliLogin(self),
                        DrivePath(Response(ci), drive) \o " show smart")
    /\ UNCHANGED <<served, request, self, registry, results, outs, data, ci, di, extra_devs, ei>>
    /\ UNCHANGED <<other, hexVars>>

\* the SMART command returns: the rest of get_perccli_smart, then
\* parse_smart_data and create_metrics_of_physical_drive (lines 355-357)
SmartReturns(res) ==
    /\ pc = "wait_smart" /\ proc = "running"
    /\ proc' = "none" /\ outs' = Append(outs, res)
    /\ LET drive == PdList(Response(ci))[di]
           parsed == parse_smart_data(SmartDataOf(res))
       IN IF res.rc # 0
          THEN /\ Abort("RuntimeError")
               /\ results' = Append(results, Outcome(res.rc, "RuntimeError", TRUE,
                                                     FALSE, FALSE, FALSE))
               /\ UNCHANGED <<registry, di>>
          ELSE /\ results' = Append(results,
                                    Outcome(res.rc, "none", FALSE,
                                            parsed.attributes = <<>>, FALSE, FALSE))
               /\ registry' = create_metrics_of_physical_drive(
                                  drive, Str(ControllerIndex(Response(ci))),
                                  parsed.attributes, registry)
               /\ di' = di + 1 /\ pc' = "drive" /\ response' = response
    /\ UNCHANGED <<served, request, self, cmds, data, ci, extra_devs, ei>>
    /\ UNCHANGED <<other, hexVars>>

\* handle_megaraid_controller after its last drive (virtual drives, BBU),
\* then main's loop over the drives (perccli_devices, a set main never
\* reads) and the step to the next controller
FinishController ==
    /\ pc = "drive" /\ di > Len(PdList(Response(ci)))
    /\ registry' = AfterDrives(Response(ci), registry)
    /\ ci' = ci + 1 /\ pc' = "controller"
    /\ UNCHANGED <<served, request, self, cmds, results, outs, proc, data, di, extra_devs,
                   ei, response>>
    /\ UNCHANGED <<other, hexVars>>

\* after the last controller main starts the device scan
StartScan ==
    /\ pc = "controller" /\ ci > Len(Controllers)
    /\ pc' = "wait_scan"
    /\ Start("scan", RemoteLogin(self), "smartctl --scan-open")
    /\ UNCHANGED <<served, request, self, registry, results, outs, data, ci, di, extra_devs,
                   ei, response>>
    /\ UNCHANGED <<other, hexVars>>

\* the scan returns: the rest of discover_scsi_nvme_devices
ScanReturns(res) ==
    /\ pc = "wait_scan" /\ proc = "running"
    /\ proc' = "none" /\ outs' = Append(outs, res)
    /\ extra_devs' = discover_scsi_nvme_devices(res)
    /\ results' = Append(results, Outcome(res.rc, "none", res.rc # 0,
                                          extra_devs' = <<>>, FALSE, FALSE))
    /\ ei' = 1 /\ pc' = "device"
    /\ UNCHANGED <<served, request, self, registry, cmds, data, ci, di, response>>
    /\ UNCHANGED <<other, hexVars>>

\* main's second loop reaches a device: the decoder starts its command
StartDevice ==
    /\ pc = "device" /\ ei <= Len(extra_devs)
    /\ pc' = "wait_health"
    /\ Start("health", RemoteLogin(self), extra_devs[ei].smartctl_cmd)
    /\ UNCHANGED <<served, request, self, registry, results, outs, data, ci, di, extra_devs,
                   ei, response>>
    /\ UNCHANGED <<other, hexVars>>

\* the health command returns: the rest of the decoder, then lines 324-326
HealthReturns(res) ==
    /\ pc = "wait_health" /\ proc = "running"
    /\ res \in HealthResults(extra_devs[ei].dtype)
    /\ proc' = "none" /\ outs' = Append(outs, res)
    /\ LET dev == extra_devs[ei]
           body == IF dev.dtype = "nvme" THEN NvmeBody(res.json) ELSE ScsiBody(res.json)
           dec == IF dev.dtype = "nvme" THEN parse_smartctl_nvme(res)
                  ELSE parse_smartctl_scsi(res)
           drive_label == IF dev.dtype = "scsi" THEN dev.disk_id ELSE dev.dev_path
           set == SetJsonAttrs(registry, "none", drive_label, dec.attrs)
       IN /\ results' = Append(results,
                Outcome(res.rc, dec.raised,
                        res.rc # 0 \/ ~res.valid \/ body.raised # "none",
                        dec.attrs = <<>>, dec.serial = JStr("unknown"),
                        \E k \in DOMAIN dec.attrs : Float(dec.attrs[k]).raised # "none"))
          /\ IF dec.raised # "none"
             THEN Abort(dec.raised) /\ UNCHANGED <<registry, ei>>
             ELSE IF set.raised # "none"
             THEN Abort(set.raised) /\ UNCHANGED <<registry, ei>>
             ELSE /\ registry' = set.registry /\ ei' = ei + 1
                  /\ pc' = "device" /\ response' = response
    /\ UNCHANGED <<served, request, self, cmds, data, ci, di, extra_devs>>
    /\ UNCHANGED <<other, hexVars>>

\* generate_latest(self.registry) and the Response of metrics_route
Finish ==
    /\ pc = "device" /\ ei > Len(extra_devs)
    /\ response' = [status |-> 200, metrics |-> registry, diag |-> ""]
    /\ pc' = "idle"
    /\ UNCHANGED <<served, request, self, registry, cmds, results, outs, proc, data, ci, di,
                   extra_devs, ei>>
    /\ UNCHANGED <<other, hexVars>>

Next ==
    \/ \E args \in RequestArgs : Receive(args)
    \/ \E res \in TopologyResults : TopologyReturns(res)
    \/ HandleController
    \/ StartDrive
    \/ \E res \in SmartResults : SmartReturns(res)
    \/ FinishController
    \/ StartScan
    \/ \E res \in ScanResults : ScanReturns(res)
    \/ StartDevice
    \/ \E res \in HealthResults("nvme") \cup HealthResults("scsi") : HealthReturns(res)
    \/ Finish

Spec == Init /\ [][Next]_vars


\* ------------------------------------------- two requests served at a time
\* app.run serves every request on a thread of its own, so a second request
\* may be received while the first waits for a remote command. The handler
\* keeps what it works on in locals and in its own PercMetrics object; the
\* module-level names it reads (config, logger, app) are never assigned
\* while requests are served. The variables above are the locals of the
\* thread that runs; other holds those of the thread that does not.

\* the locals of the running handler thread
Running ==
    [pc |-> pc, request |-> request, self |-> self, registry |-> registry,
     cmds |-> cmds, results |-> results, outs |-> outs, proc |-> proc,
     data |-> data, ci |-> ci, di |-> di, extra_devs |-> extra_devs, ei |-> ei,
     response |-> response]

\* the scheduler suspends the running thread and resumes the other one
Switch ==
    /\ other # Running
    /\ other' = Running
    /\ pc' = other.pc /\ request' = other.request /\ self' = other.self
    /\ registry' = other.registry /\ cmds' = other.cmds
    /\ results' = other.results /\ outs' = other.outs /\ proc' = other.proc
    /\ data' = other.data /\ ci' = other.ci /\ di' = other.di
    /\ extra_devs' = other.extra_devs /\ ei' = other.ei
    /\ response' = other.response
    /\ UNCHANGED <<served, hexVars>>

\* what the remote hosts say while two requests are served: a part of the
\* results above
ThreadArgs == { "target" :> "esx1", "target" :> "esx2" }

ThreadTopologyResults ==
    { [rc |-> 1, valid |-> FALSE, json |-> JNull],
      [rc |-> 0, valid |-> TRUE,
       json |-> JObj("Controllers" :> JArr(<<Ctrl(0, "lsi-mr3", "Optimal", 1)>>))],
      [rc |-> 0, valid |-> TRUE, json |-> JObj("Controllers" :> JArr(<<>>))] }

ThreadSmartResults ==
    { [rc |-> 1, block |-> FALSE, text |-> <<>>],
      [rc |-> 0, block |-> TRUE,
       text |-> Encode(Rec(9, <<50, 0, 100, 100>>, <<100, 0, 0, 0, 0, 0>>), "dump")
                  \o <<"\n">>] }

ThreadScanResults ==
    { [rc |-> 1, lines |-> <<>>],
      [rc |-> 0, lines |-> << ScanLine("/dev/nvme0", "-d NVMe", "") >>] }

ThreadHealthResults ==
    { res \in HealthResults("nvme") :
        res.valid /\ Get(res.json, "serial_number", JNull) \in {JStr("S4EW"), JStr("S4EX")} }

NextThreads ==
    \/ \E args \in ThreadArgs : Receive(args)
    \/ \E res \in ThreadTopologyResults : TopologyReturns(res)
    \/ HandleController
    \/ StartDrive
    \/ \E res \in ThreadSmartResults : SmartReturns(res)
    \/ FinishController
    \/ StartScan
    \/ \E res \in ThreadScanResults : ScanReturns(res)
    \/ StartDevice
    \/ \E res \in ThreadHealthResults : HealthReturns(res)
    \/ Finish
    \/ Switch

SpecThreads == Init /\ [][NextThreads]_vars


\* ------------------------------------------------- the decoder on its own
\* The SMART hex decoder applied to drawn texts: every text of at most
\* MaxChars characters over a small alphabet (hex digits, a blank, a letter
\* that is no hex digit), and every stream of 1..MaxRecords well-formed
\* 11-byte records written as hexadecimal text.
HexAlphabet == {"0", "1", "2", "f", "z", " "}

FreeTexts == UNION {[1..n -> HexAlphabet] : n \in 0..MaxChars}

RecIds == {1, 9, 47, 194, 255}
RecFlags == {<<0, 0, 100, 100>>, <<51, 0, 1, 253>>}
RecRaws == {<<100, 0, 0, 0, 0, 0>>, <<1, 2, 3, 4, 5, 6>>,
            <<255, 255, 255, 255, 255, 255>>}
Recs == {Rec(id, fl, raw) : id \in RecIds, fl \in RecFlags, raw \in RecRaws}

RECURSIVE Flatten(_)
Flatten(seqs) == IF seqs = <<>> THEN <<>> ELSE Head(seqs) \o Flatten(Tail(seqs))

RecordStreams == UNION {{Flatten(q) : q \in [1..n -> Recs]} : n \in 1..MaxRecords}

HexCases ==
    {[text |-> t, bytes |-> <<>>, records |-> 0] : t \in FreeTexts}
    \cup {[text |-> Encode(b, st), bytes |-> b, records |-> Len(b) \div 11] :
            b \in RecordStreams, st \in {"plain", "dump"}}

InitHex ==
    /\ pc = "idle" /\ served = 0 /\ request = <<>> /\ self = NoSelf
    /\ registry = {} /\ cmds = <<>> /\ results = <<>> /\ outs = <<>> /\ proc = "none"
    /\ data = JNull /\ ci = 0 /\ di = 0 /\ extra_devs = <<>> /\ ei = 0
    /\ response = NoResponse /\ other = IdleThread
    /\ hexPc = "input" /\ hexResult = NoDecode
    /\ \E c \in HexCases :
         hexInput = c.text /\ hexBytes = c.bytes /\ hexRecords = c.records

\* a call of parse_smart_data
DecodeHex ==
    /\ hexPc = "input"
    /\ hexResult' = parse_smart_data(hexInput)
    /\ hexPc' = "decoded"
    /\ UNCHANGED <<hexInput, hexBytes, hexRecords>>
    /\ UNCHANGED reqVars

NextHex == DecodeHex

SpecHex == InitHex /\ [][NextHex]_vars

\* ------------------------------------------------------------------ claims
\* a 48-bit value kept as limbs, each below 2^24
IsValue48(v) ==
    /\ DOMAIN v = {"hi", "lo"}
    /\ v.hi \in 0..(256 * 65536 - 1) /\ v.lo \in 0..(256 * 65536 - 1)

\* C8: for every input text (empty, an odd number of hex digits, a single
\* byte, text that is no hex at all) the SMART hex decoder returns a mapping
\* of names to values and no exception leaves it; when its body fails the
\* mapping returned is empty.
C8_DecoderNeverRaises ==
    hexPc = "decoded" =>
        /\ hexResult.raised = "none"
        /\ \A name \in DOMAIN hexResult.attributes :
              IsValue48(hexResult.attributes[name])
        /\ (HeaderCheck(ByteArray(HexClean(hexInput))) = "IndexError"
               => hexResult.attributes = <<>>)

\* C8 witness: a single byte 0x2f, on which the framing test indexes past
\* the end of the array, has been decoded
C8_Witness ==
    /\ hexPc = "decoded"
    /\ hexInput = <<"2", "f", " ", "z">>
    /\ hexResult.attributes = <<>>

\* the first two bytes of the stream are one of the framing markers
StartsWithMarker(bytes) ==
    /\ Len(bytes) >= 2
    /\ bytes[2] = 0
    /\ bytes[1] \in {1, 47}

\* the ids of the records of a stream
StreamIds(bytes) == {bytes[11 * (k - 1) + 1] : k \in 1..(Len(bytes) \div 11)}

\* N well-formed records decoded in place: the records are taken at offsets
\* 0, 11, ..., 11(N-1), 11N bytes are consumed, the mapping has one entry
\* per distinct id, named after byte 0 of the record
DecodedInPlace ==
    /\ hexResult.i = 11 * hexRecords
    /\ Len(hexResult.log) = hexRecords
    /\ \A k \in 1..hexRecords :
          /\ hexResult.log[k].off = 11 * (k - 1)
          /\ hexResult.log[k].id = hexBytes[11 * (k - 1) + 1]
          /\ hexResult.log[k].name = AttrName(hexBytes[11 * (k - 1) + 1])
          /\ hexResult.log[k].name \in DOMAIN hexResult.attributes
    /\ Cardinality(DOMAIN hexResult.attributes) = Cardinality(StreamIds(hexBytes))

\* C9 as stated: every stream of N >= 1 well-formed 11-byte records (ids in
\* 1..255, any other bytes) is decoded in place.
C9_Original ==
    (hexPc = "decoded" /\ hexRecords >= 1) => DecodedInPlace

\* C9 amended: every stream of N >= 1 well-formed 11-byte records whose first
\* two bytes are neither 01 00 nor 2f 00 is decoded in place.
C9_RecordsDecodedInPlace ==
    (hexPc = "decoded" /\ hexRecords >= 1 /\ ~StartsWithMarker(hexBytes))
        => DecodedInPlace

\* C9 witness: a stream of two records with different ids, the first with
\* id 0x01 and a non-zero byte 1, has been decoded
C9_Witness ==
    /\ hexPc = "decoded" /\ hexRecords = 2
    /\ hexBytes[1] = 1 /\ hexBytes[2] = 51 /\ hexBytes[12] = 194
    /\ Cardinality(DOMAIN hexResult.attributes) = 2

\* the value the claim gives a record accepted at offset off of the bytes
ClaimedValue(bytes, off) ==
    IF bytes[off + 1] = 194
    THEN [hi |-> 0, lo |-> bytes[off + 6]]
    ELSE [hi |-> bytes[off + 9] + 256 * bytes[off + 10] + 65536 * bytes[off + 11],
          lo |-> bytes[off + 6] + 256 * bytes[off + 7] + 65536 * bytes[off + 8]]

\* C10: for every record the decoder accepts, the value is the little-endian
\* reconstruction of bytes 5..10 (below 2^48) unless the id is 0xC2, and byte
\* 5 (at most 255) when the id is 0xC2; it is a function of the id and of
\* bytes 5..10 alone. The mapping holds the value of the last record of each
\* name.
C10_SurfacedValue ==
    hexPc = "decoded" =>
        /\ \A k \in DOMAIN hexResult.log :
              LET e == hexResult.log[k] IN
              /\ e.id = hexBytes[e.off + 1]
              /\ e.value = ClaimedValue(hexBytes, e.off)
              /\ IsValue48(e.value)
              /\ e.id = 194 => (e.value.hi = 0 /\ e.value.lo <= 255)
              /\ (\A h \in DOMAIN hexResult.log : h > k => hexResult.log[h].name # e.name)
                    => hexResult.attributes[e.name] = e.value

\* C10 witness: a decoded stream holds a record 0xC2 whose bytes 6..10 are
\* not zero and a record of another id whose value needs more than 24 bits
C10_Witness ==
    /\ hexPc = "decoded"
    /\ \E k \in DOMAIN hexResult.log :
          /\ hexResult.log[k].id = 194
          /\ hexBytes[hexResult.log[k].off + 7] # 0
          /\ hexResult.log[k].value = [hi |-> 0, lo |-> 1]
    /\ \E k \in DOMAIN hexResult.log :
          /\ hexResult.log[k].id = 9
          /\ hexResult.log[k].value.hi = 4 + 256 * 5 + 65536 * 6


\* the i-th command of the request has returned and was of this kind
Returned(i, kind) == i \in DOMAIN results /\ cmds[i].kind = kind

\* the request ended with an error answer right after its i-th command
AbortedAt(i) == pc = "idle" /\ response.status = 500 /\ Len(cmds) = i

\* C1: when the SMART command of a drive fails after the topology was
\* fetched, no exception leaves the fetch, the drive gets an empty attribute
\* set, the request goes on (it is not answered with an error at that
\* command) and the samples collected so far stay in what is answered.
C1_PerDriveFailOpen ==
    \A i \in DOMAIN results :
        (Returned(i, "smart") /\ results[i].failed) =>
            /\ results[i].raised = "none"
            /\ results[i].empty
            /\ ~AbortedAt(i)
            /\ (pc = "idle" => registry \subseteq response.metrics)

\* the topology command failed or printed something json.loads rejects
TopologyFailed == Returned(1, "topology") /\ results[1].failed

\* C2: when the topology command exits with a non-zero status or prints
\* invalid JSON, the request is answered 500 with a diagnostic and without
\* metrics, and the topology command stays the only command of the request.
C2_TopologyFailClosed ==
    TopologyFailed =>
        /\ pc = "idle"
        /\ response.status = 500 /\ response.diag # "" /\ response.metrics = {}
        /\ Len(cmds) = 1

\* C2 witness: a topology command that exited 0 with invalid JSON was
\* answered 500
C2_Witness ==
    /\ TopologyFailed /\ results[1].rc = 0
    /\ response.status = 500 /\ self.host = "esx2"

\* the topology command printed valid JSON without the root structure: the
\* root is no object or has no "Controllers"
LacksRoot ==
    /\ Returned(1, "topology") /\ ~results[1].failed
    /\ (~IsObj(data) \/ "Controllers" \notin DOMAIN data.o)

\* C3: valid topology JSON without the root structure is a fatal parse error
\* answered 500, never a successful response.
C3_MissingRootIsFatal ==
    LacksRoot => (response.status # 200 /\ (pc = "idle" => response.status = 500))

\* C4: a request whose target is missing, empty or not configured is answered
\* 400 and issues no remote command; only requests for a configured target
\* issue remote commands.
C4_BadTargetRejected ==
    LET target == ArgsGet(request, "target")
        configured == target.some /\ target.v \in {"esx1", "esx2"}
    IN served > 0 =>
         /\ ~configured => (pc = "idle" /\ response.status = 400 /\ cmds = <<>>)
         /\ cmds # <<>> => configured

\* C4 witness: a request for the unconfigured target esx9 was answered 400,
\* after an earlier request
C4_Witness ==
    /\ served = 2 /\ request = ("target" :> "esx9")
    /\ response.status = 400 /\ cmds = <<>>

\* C5: whatever fails while a device's health report is fetched or decoded
\* (the command itself, invalid JSON, a missing nested field), the decoder
\* returns an empty mapping and the serial "unknown", and no exception
\* leaves it.
C5_HealthDecodersFailOpen ==
    \A i \in DOMAIN results :
        (Returned(i, "health") /\ results[i].failed) =>
            /\ results[i].raised = "none"
            /\ results[i].empty /\ results[i].unknown
            /\ ~AbortedAt(i)

\* C6: a decoded attribute that is not numeric is dropped: it makes no
\* sample, the request does not fail because of it, and every drive_smart
\* sample answered is a number.
C6_NonNumericDropped ==
    /\ \A i \in DOMAIN results : results[i].nonnumeric => ~AbortedAt(i)
    /\ \A x \in response.metrics : IsValue48(x.value)

\* C7: every remote command is bounded by a timeout, so a request that was
\* accepted is never left waiting for ever: while it is being served, a
\* step of the handler, the end of the remote process or a timeout is
\* possible.
C7_RequestNeverStuck == pc # "idle" => ENABLED Next


\* the controller at position j of the topology went through
\* handle_common_controller in the request being served
Handled(j) == j < ci \/ (j = ci /\ pc \in {"drive", "wait_smart"})

\* the status text of a controller report
StatusText(resp) == Get(Section(resp, "Status"), "Controller Status", JNull)

\* the driver-derived family of the traceability rule: megaraid for the
\* two MegaRAID driver names, sas for the SAS host-bus-adapter driver
FamilyOf(resp) ==
    IF IsMegaraid(resp) THEN "megaraid"
    ELSE IF DriverName(resp) = JStr("mpt3sas") THEN "sas"
    ELSE "other"

\* the value the family rule gives: "Optimal" for megaraid, "OK" for sas
FamilyStatus(resp) ==
    IF FamilyOf(resp) = "megaraid"
    THEN (IF StatusText(resp) = JStr("Optimal") THEN 1 ELSE 0)
    ELSE (IF StatusText(resp) = JStr("OK") THEN 1 ELSE 0)

\* the controller_status sample of a controller report is v
StatusSampleIs(resp, v) ==
    [metric |-> "controller_status", labels |-> <<Str(ControllerIndex(resp))>>,
     value |-> Small(v)] \in registry

\* C11: for every controller of the megaraid or sas family and every status
\* text, the controller status sample is the family rule's value: 1 exactly
\* for "Optimal" (megaraid) or "OK" (sas), 0 otherwise.
C11_FamilyStatusRule ==
    \A j \in DOMAIN Controllers :
        (Handled(j) /\ FamilyOf(Response(j)) # "other") =>
            StatusSampleIs(Response(j), FamilyStatus(Response(j)))


\* the request being looked at was answered successfully
Succeeded == pc = "idle" /\ response.status = 200

\* the SMART commands due for the controller at position j: one per drive
\* of its "PD LIST" when its family is recognized, none otherwise
DueSmartArgs(j) ==
    IF IsMegaraid(Response(j))
    THEN [k \in 1..Len(PdList(Response(j))) |->
            DrivePath(Response(j), PdList(Response(j))[k]) \o " show smart"]
    ELSE <<>>

\* the commands due for the request, in the order of the control flow:
\* topology, the drives of every controller, the scan, the devices found
DueCmds ==
    << [kind |-> "topology", arg |-> "/cALL show all J"] >>
    \o [k \in 1..Len(Flatten([j \in 1..Len(Controllers) |-> DueSmartArgs(j)])) |->
          [kind |-> "smart",
           arg |-> Flatten([j \in 1..Len(Controllers) |-> DueSmartArgs(j)])[k]]]
    \o << [kind |-> "scan", arg |-> "smartctl --scan-open"] >>
    \o [k \in 1..Len(extra_devs) |->
          [kind |-> "health", arg |-> extra_devs[k].smartctl_cmd]]

\* the commands the request issued, as kind and argument
IssuedCmds == [k \in 1..Len(cmds) |-> [kind |-> cmds[k].kind, arg |-> cmds[k].arg]]

\* the drives enumerated by the request
EnumeratedDrives == Len(Flatten([j \in 1..Len(Controllers) |-> DueSmartArgs(j)]))

\* C12: the remote commands of a request are issued one at a time (a command
\* is issued only after the one before it returned), and in a successful
\* request they are exactly: the topology command, one SMART command per
\* drive of each recognized controller, the scan, one health command per
\* discovered device, each once and in that order; their number is
\* 1 + drives + 1 + devices and no SMART command follows the scan.
C12_CommandsInOrderOnce ==
    /\ Len(cmds) - Len(results) = (IF proc = "none" THEN 0 ELSE 1)
    /\ Succeeded =>
         /\ IssuedCmds = DueCmds
         /\ Len(results) = Len(cmds)
         /\ Len(cmds) = 1 + EnumeratedDrives + 1 + Len(extra_devs)
         /\ \A a, b \in DOMAIN cmds :
                (cmds[a].kind = "scan" /\ cmds[b].kind = "smart") => b < a
         /\ \A k \in DOMAIN extra_devs : extra_devs[k].dtype \in {"nvme", "scsi"}

\* C12 witness: a successful request over two controllers, one of them
\* recognized with two drives, and two discovered devices: six commands
C12_Witness ==
    /\ Succeeded
    /\ Len(Controllers) = 2 /\ EnumeratedDrives = 2 /\ Len(extra_devs) = 2
    /\ Len(cmds) = 6 /\ cmds[4].kind = "scan" /\ cmds[6].kind = "health"


\* C14: every remote command of a request for a configured target (the
\* topology command, the SMART commands, the scan, the health commands) is
\* sent to that target, under the user configured for that target.
C14_CommandsGoToTarget ==
    \A k \in DOMAIN cmds :
        /\ "target" \in DOMAIN request
        /\ request["target"] \in DOMAIN config
        /\ cmds[k].host = request["target"]
        /\ cmds[k].user = config[request["target"]].username


RECURSIVE OwnDrives(_, _, _, _)
\* the samples after the drives k, k+1, ... of a controller report, made
\* from the outputs souts of the drives' SMART commands
OwnDrives(resp, k, souts, reg) ==
    IF k > Len(PdList(resp)) THEN reg
    ELSE OwnDrives(resp, k + 1, Tail(souts),
                   create_metrics_of_physical_drive(
                       PdList(resp)[k], Str(ControllerIndex(resp)),
                       parse_smart_data(SmartDataOf(Head(souts))).attributes, reg))

RECURSIVE OwnControllers(_, _, _)
\* the samples after the controllers ctrls, made from the topology and from
\* the outputs souts of the SMART commands
OwnControllers(ctrls, souts, reg) ==
    IF ctrls = <<>> THEN reg
    ELSE LET resp == Get(Head(ctrls), "Response Data", JObj(<<>>))
             common == handle_common_controller(resp, reg).registry
         IN IF IsMegaraid(resp)
            THEN OwnControllers(Tail(ctrls),
                                SubSeq(souts, Len(PdList(resp)) + 1, Len(souts)),
                                AfterDrives(resp, OwnDrives(resp, 1, souts, common)))
            ELSE OwnControllers(Tail(ctrls), souts, common)

RECURSIVE OwnDevices(_, _, _)
\* the samples after the devices devs, made from the outputs houts of the
\* health commands
OwnDevices(devs, houts, reg) ==
    IF devs = <<>> THEN reg
    ELSE LET dev == Head(devs)
             dec == IF dev.dtype = "nvme" THEN parse_smartctl_nvme(Head(houts))
                    ELSE parse_smartctl_scsi(Head(houts))
             drive_label == IF dev.dtype = "scsi" THEN dev.disk_id ELSE dev.dev_path
         IN OwnDevices(Tail(devs), Tail(houts),
                       SetJsonAttrs(reg, "none", drive_label, dec.attrs).registry)

\* the number of SMART commands among the commands of a thread's request
SmartCount(t) == Cardinality({k \in DOMAIN t.cmds : t.cmds[k].kind = "smart"})

\* the samples a successful request makes from nothing but what its own
\* remote commands printed, starting from an empty registry
OwnMetrics(t) ==
    OwnDevices(discover_scsi_nvme_devices(t.outs[2 + SmartCount(t)]),
               SubSeq(t.outs, 3 + SmartCount(t), Len(t.outs)),
               OwnControllers(ControllersOf(t.outs[1].json).controllers,
                              SubSeq(t.outs, 2, 1 + SmartCount(t)), {}))

\* the commands a successful request owes, counted from what its own
\* commands printed: topology, one per drive of a recognized controller,
\* the scan, one per discovered device
OwnCommandCount(t) ==
    LET ctrls == ControllersOf(t.outs[1].json).controllers
        drives(j) == LET resp == Get(ctrls[j], "Response Data", JObj(<<>>))
                     IN IF IsMegaraid(resp) THEN Len(PdList(resp)) ELSE 0
    IN 1 + Len(Flatten([j \in 1..Len(ctrls) |-> [k \in 1..drives(j) |-> <<j>>]]))
         + 1 + Len(discover_scsi_nvme_devices(t.outs[2 + SmartCount(t)]))

\* the request of a thread was answered successfully
Answered(t) == t.pc = "idle" /\ t.response.status = 200

\* C13: requests are isolated. Whatever the order in which two handler
\* threads take their steps and whatever their targets, the samples in a
\* successful response are exactly those made from the outputs of that
\* request's own commands (nothing of an earlier or concurrent request is in
\* it), and every accepted request runs its own commands again: it starts
\* with its own topology command and a successful one has executed every
\* command it owes.
C13_RequestsIsolated ==
    \A t \in {Running, other} :
        /\ t.self # NoSelf =>
              /\ t.cmds # <<>> /\ t.cmds[1].kind = "topology"
              /\ t.cmds[1].host = t.request["target"]
        /\ Answered(t) =>
              /\ Len(t.outs) = Len(t.cmds)
              /\ Len(t.cmds) = OwnCommandCount(t)
              /\ t.response.metrics = OwnMetrics(t)

\* C13 witness: the second request, for another target, was answered with
\* its own samples while the first request is still being served on the
\* other thread and holds samples that are not in that answer
C13_Witness ==
    /\ served = 2 /\ Answered(Running) /\ response.metrics # {}
    /\ other.pc = "wait_health" /\ other.request # request
    /\ other.registry # {}
    /\ \E x \in other.registry : x \notin response.metrics
    /\ \E x \in response.metrics : x \notin other.registry

=============================================================================
